---- MODULE Spec2Model ----
(***************************************************************************)
(* A model of src/src/report_comparator.py: the pure comparison            *)
(* ReportComparator.compare_reports, the orchestrator                      *)
(* ReportComparator.compare_all_reports, validate_required_files and main. *)
(*                                                                         *)
(* Numbers are decimal fixed point.  A metric_value v stands for v/1000    *)
(* (already a percentage); a match m stands for m/100000, so that          *)
(* match*100 is m/1000.  Rounding to two decimals is therefore a rounding  *)
(* of thousandths to hundredths, and rounding to an integer a rounding of  *)
(* thousandths to units.  Binary floating point artefacts are not          *)
(* modelled.                                                               *)
(*                                                                         *)
(* SpecJoin and SpecNum call compare_reports on every input of a bounded   *)
(* set (tables that exercise the join, and cells that exercise the         *)
(* arithmetic); Spec runs main, or a direct call of compare_all_reports,   *)
(* over every configuration and filesystem of a bounded set, one step per  *)
(* filesystem access.                                                      *)
(***************************************************************************)
EXTENDS Integers, Sequences, FiniteSets

VARIABLES
    existing_sample,   \* compare_reports: the baseline table (argument)
    metric,            \* compare_reports: the new-metric table (argument)
    filter,            \* compare_reports: the filter (argument)
    comparison,        \* compare_reports: what the call returned or raised
    pc,                \* position of the running call
    config,            \* the paths of conf/comparison.yml, by metrics key
    fs,                \* the filesystem: what each path holds
    caller,            \* who calls compare_all_reports: main, or a direct call
    metric_type,       \* the metric choice / the argument of compare_all_reports
    files_ok,          \* main: what validate_required_files returned
    comparisons,       \* compare_all_reports: the mapping built so far, in order
    written,           \* main: the output files written so far, in order
    error,             \* the exception that ended the run, if any
    fsOps              \* the filesystem accesses of compare_all_reports, in order

orch == <<config, fs, caller, metric_type, files_ok, comparisons, written, error, fsOps>>

vars == <<existing_sample, metric, filter, comparison, pc, orch>>

----------------------------------------------------------------------------
(* Values *)

\* A missing string value (NaN / None in an object column).
NA == "<NA>"

\* Cells of a numeric column: missing, a number, or a non-numeric string.
Null == [k |-> "null"]
Num(v) == [k |-> "num", v |-> v]
Str(s) == [k |-> "str", s |-> s]

\* pd.notnull
NotNull(x) == x # Null

IsNum(x) == x.k = "num"

\* str.lower() on the metric labels in use; a missing value stays missing.
StrLower(s) ==
    CASE s \in {"asf", "ASF", "Asf"} -> "asf"
      [] s \in {"apa", "APA", "Apa"} -> "apa"
      [] s \in {"psf", "PSF"} -> "psf"
      [] s \in {"ssf", "SSF"} -> "ssf"
      [] OTHER -> s

\* str.upper() on the country codes in use; a missing value stays missing.
StrUpper(s) ==
    CASE s \in {"us", "US", "Us"} -> "US"
      [] s \in {"de", "DE", "De"} -> "DE"
      [] OTHER -> s

\* Lexicographic rank of a join key; missing keys sort last.
KeyRank(c) ==
    CASE c = "DE" -> 0
      [] c = "De" -> 1
      [] c = "US" -> 2
      [] c = "Us" -> 3
      [] c = "de" -> 4
      [] c = "us" -> 5
      [] OTHER -> 6

\* round half to even of n/d, for d > 0 (Python round, numpy round, '.2f').
RoundHalfEven(n, d) ==
    LET q == n \div d
        r == n % d
    IN  IF 2 * r < d THEN q
        ELSE IF 2 * r > d THEN q + 1
        ELSE IF q % 2 = 0 THEN q ELSE q + 1

----------------------------------------------------------------------------
(* compare_reports *)

\* The comparison with the filter taken as it is written.
FilterMatchesNoLower(label, f) == label # NA /\ StrLower(label) = f

\* Lines 71, 88: series.str.lower() == filter.lower(); a missing label matches
\* nothing.
FilterMatches(label, f) == label # NA /\ StrLower(label) = StrLower(f)

\* The baseline projection with the countries left as they are written.
ExistingProcessedKeepCase(table, f) ==
    LET kept == SelectSeq(table, LAMBDA r : FilterMatches(r.metric, f))
    IN  [i \in 1..Len(kept) |->
            [metric |-> StrLower(kept[i].metric),
             country |-> kept[i].country,
             provider |-> kept[i].provider,
             product |-> kept[i].product,
             metric_value |-> kept[i].metric_value]]

\* Lines 71-84: filter the baseline, project, upper-case country, lower-case
\* metric.  Of the nine projected columns the ones line 114 keeps are carried.
ExistingProcessed(table, f) ==
    LET kept == SelectSeq(table, LAMBDA r : FilterMatches(r.metric, f))
    IN  [i \in 1..Len(kept) |->
            [metric |-> StrLower(kept[i].metric),
             country |-> StrUpper(kept[i].country),
             provider |-> kept[i].provider,
             product |-> kept[i].product,
             metric_value |-> kept[i].metric_value]]

\* Lines 88-100: filter the new-metric table and project (no case change).  Of
\* the ten projected columns the ones line 114 keeps, and metric, are carried.
MetricProcessed(table, f) ==
    LET kept == SelectSeq(table, LAMBDA r : FilterMatches(r.metric, f))
    IN  [i \in 1..Len(kept) |->
            [metric |-> kept[i].metric,
             country |-> kept[i].country,
             sample_size |-> kept[i].sample_size,
             match |-> kept[i].match,
             matching_run_id |-> kept[i].matching_run_id]]

\* One row of the merge; a missing side contributes nulls.
JoinedRow(c, l, r) ==
    [metric_existing |-> l.metric,
     country |-> c,
     provider |-> l.provider,
     product |-> l.product,
     metric_value |-> l.metric_value,
     metric_metric |-> r.metric,
     sample_size |-> r.sample_size,
     match |-> r.match,
     matching_run_id |-> r.matching_run_id]

NoLeft == [metric |-> NA, provider |-> NA, product |-> NA, metric_value |-> Null]

NoRight == [metric |-> NA, sample_size |-> NA, match |-> Null, matching_run_id |-> NA]

RECURSIVE Flatten(_)
Flatten(ss) == IF ss = <<>> THEN <<>> ELSE Head(ss) \o Flatten(Tail(ss))

\* The distinct keys of both sides in sorted order.
RECURSIVE SortedKeys(_)
SortedKeys(S) ==
    IF S = {} THEN <<>>
    ELSE LET m == CHOOSE x \in S : \A y \in S : KeyRank(x) <= KeyRank(y)
         IN  <<m>> \o SortedKeys(S \ {m})

\* The rows an inner join makes for one key.
KeyGroupInner(c, left, right) ==
    LET ls == SelectSeq(left, LAMBDA l : l.country = c)
        rs == SelectSeq(right, LAMBDA r : r.country = c)
    IN  Flatten([i \in 1..Len(ls) |-> [j \in 1..Len(rs) |-> JoinedRow(c, ls[i], rs[j])]])

\* The rows the outer merge makes for one key: the product of the rows of
\* both sides, or the rows of the one side that has the key.  Missing keys
\* match each other.
KeyGroup(c, left, right) ==
    LET ls == SelectSeq(left, LAMBDA l : l.country = c)
        rs == SelectSeq(right, LAMBDA r : r.country = c)
    IN  IF rs = <<>> THEN [i \in 1..Len(ls) |-> JoinedRow(c, ls[i], NoRight)]
        ELSE IF ls = <<>> THEN [j \in 1..Len(rs) |-> JoinedRow(c, NoLeft, rs[j])]
        ELSE Flatten([i \in 1..Len(ls) |->
                        [j \in 1..Len(rs) |-> JoinedRow(c, ls[i], rs[j])]])

\* Line 102: pd.merge(..., on=['country'], how='outer').
Merge(left, right) ==
    LET keys == SortedKeys({left[i].country : i \in 1..Len(left)}
                           \cup {right[j].country : j \in 1..Len(right)})
    IN  Flatten([k \in 1..Len(keys) |-> KeyGroup(keys[k], left, right)])

\* The formatted string "<pct/100 with 2 decimals> (<delta>)", kept as its two numbers.
Formatted(pct, delta) == [k |-> "text", pct |-> pct, delta |-> delta]

NoValue == [k |-> "none"]

\* What the lambda does on a string cell: arithmetic on it raises TypeError.
RaiseTypeError == [k |-> "raise"]

\* The lambda with the delta cut instead of rounded.
ComparisonMetricValueTrunc(x) ==
    IF NotNull(x.match) /\ NotNull(x.metric_value)
    THEN IF IsNum(x.match) /\ IsNum(x.metric_value)
         THEN Formatted(RoundHalfEven(x.match.v, 10),
                        (x.match.v - x.metric_value.v) \div 1000)
         ELSE RaiseTypeError
    ELSE NoValue

\* Lines 105-110: the lambda applied to one joined row.
ComparisonMetricValue(x) ==
    IF NotNull(x.match) /\ NotNull(x.metric_value)
    THEN IF IsNum(x.match) /\ IsNum(x.metric_value)
         THEN Formatted(RoundHalfEven(x.match.v, 10),
                        RoundHalfEven(x.match.v - x.metric_value.v, 1000))
         ELSE RaiseTypeError
    ELSE NoValue

\* Lines 115-116: round(series.astype(float) [* 100], 2), in hundredths.
\* astype(float) raises on a non-numeric string.
RoundedColumn(x) == IF IsNum(x) THEN Num(RoundHalfEven(x.v, 10)) ELSE Null

\* Lines 111-117: the output row.  The source renames metric_value to
\* metric_existing, a name the label column already has; the value column is
\* kept here as metric_existing_value.
OutputRow(x) ==
    [metric_existing |-> x.metric_existing,
     country |-> x.country,
     provider |-> x.provider,
     product |-> x.product,
     sample_size |-> x.sample_size,
     metric_existing_value |-> RoundedColumn(x.metric_value),
     metric_new |-> RoundedColumn(x.match),
     matching_run_id |-> x.matching_run_id,
     comparison_metric_value |-> ComparisonMetricValue(x)]

Raised(e) == [k |-> "raised", error |-> e]

Returned(t) == [k |-> "returned", table |-> t]

\* Line 102: the merged table of a call.
Joined(existing, new, f) == Merge(ExistingProcessed(existing, f), MetricProcessed(new, f))

\* Lines 70-119.  The lambda runs over all rows first (TypeError), then the
\* columns are converted (ValueError).  A merge without rows returns the empty
\* table here.
CompareReports(existing, new, f) ==
    LET j == Joined(existing, new, f)
    IN  IF \E i \in 1..Len(j) : ComparisonMetricValue(j[i]) = RaiseTypeError
        THEN Raised("TypeError")
        ELSE IF \E i \in 1..Len(j) : j[i].match.k = "str" \/ j[i].metric_value.k = "str"
        THEN Raised("ValueError")
        ELSE Returned([i \in 1..Len(j) |-> OutputRow(j[i])])

----------------------------------------------------------------------------
(* Inputs of compare_reports *)

\* Most rows of a table.
MaxRows == 2

\* Most rows of a table when the cells range over the numeric cases.
MaxNumRows == 1

SeqsUpTo(S, n) == UNION {[1..k -> S] : k \in 0..n}

Filters == {"asf", "ASF", "Asf", "apa"}

\* Baseline rows for the join: labels in several casings, countries in several
\* casings and missing, one row without a value.
BaselineRows ==
    {[metric |-> m, country |-> c, provider |-> "tt", product |-> "geo",
      metric_value |-> IF c = NA THEN Null ELSE Num(91234)] :
        m \in {"ASF", "apa"}, c \in {"us", "DE", NA}}

MetricRows ==
    {[metric |-> m, country |-> c, sample_size |-> "500",
      match |-> IF c = "us" THEN Null ELSE Num(93505), matching_run_id |-> "r1"] :
        m \in {"asf", "APA"}, c \in {"US", "us", "DE"}}

\* Cells of metric_value: missing, plain, ties of the delta, above the match,
\* and a non-numeric string.
MetricValueCells ==
    {Null, Num(91234), Num(92005), Num(93005), Num(95125), Str("n/a")}

\* Cells of match: missing, plain, ties of the second decimal both ways, and a
\* non-numeric string.
MatchCells == {Null, Num(93500), Num(93505), Num(93515), Str("n/a")}

BaselineNumRows ==
    {[metric |-> "ASF", country |-> c, provider |-> "tt", product |-> "geo",
      metric_value |-> v] : c \in {"us", "DE"}, v \in MetricValueCells}

MetricNumRows ==
    {[metric |-> "asf", country |-> c, sample_size |-> "500",
      match |-> v, matching_run_id |-> "r1"] : c \in {"US", "FR"}, v \in MatchCells}

\* No run of main or compare_all_reports: only compare_reports is called.
NoError == [type |-> "none", at |-> "none"]

NoOrchestrator ==
    /\ config = <<>>
    /\ fs = <<>>
    /\ caller = "compare_reports"
    /\ metric_type = "none"
    /\ files_ok = "pending"
    /\ comparisons = <<>>
    /\ written = <<>>
    /\ error = NoError
    /\ fsOps = <<>>

InitJoin ==
    /\ NoOrchestrator
    /\ existing_sample \in SeqsUpTo(BaselineRows, MaxRows)
    /\ metric \in SeqsUpTo(MetricRows, MaxRows)
    /\ filter \in Filters
    /\ comparison = NoValue
    /\ pc = "call"

InitNum ==
    /\ NoOrchestrator
    /\ existing_sample \in SeqsUpTo(BaselineNumRows, MaxNumRows)
    /\ metric \in SeqsUpTo(MetricNumRows, MaxNumRows)
    /\ filter \in {"asf", "ASF"}
    /\ comparison = NoValue
    /\ pc = "call"

\* A call of compare_reports on the inputs.
Compare ==
    /\ pc = "call"
    /\ comparison' = CompareReports(existing_sample, metric, filter)
    /\ pc' = "returned"
    /\ UNCHANGED <<existing_sample, metric, filter, orch>>

SpecJoin == InitJoin /\ [][Compare]_vars

SpecNum == InitNum /\ [][Compare]_vars

----------------------------------------------------------------------------
(* Paths, configuration and files *)

\* A path is the sequence of its segments.
ExistingUpPath == <<"..", "data", "existing_sample.csv">>

ExistingPath == <<"data", "existing_sample.csv">>

AsfApaUpPath == <<"..", "metrics", "asf_apa.csv">>

AsfApaPath == <<"metrics", "asf_apa.csv">>

PsfPath == <<"metrics", "psf.csv">>

SsfPath == <<"metrics", "ssf.csv">>

AllPaths == {ExistingUpPath, ExistingPath, AsfApaUpPath, AsfApaPath, PsfPath, SsfPath}

\* str.replace('../', ''): every '..' segment goes.
StripParent(path) == SelectSeq(path, LAMBDA seg : seg # "..")

\* config['metrics'][key]['path'], by key.
Configs ==
    [existing_sample : {ExistingUpPath, ExistingPath},
     asf_apa_new : {AsfApaUpPath, AsfApaPath},
     psf_new : {PsfPath},
     ssf_new : {SsfPath}]

ConfigPath(cfg, key) ==
    CASE key = "existing_sample" -> cfg.existing_sample
      [] key = "asf_apa_new" -> cfg.asf_apa_new
      [] key = "psf_new" -> cfg.psf_new
      [] key = "ssf_new" -> cfg.ssf_new

\* What a path holds: nothing, a file pd.read_csv cannot parse, or a table.
Absent == [k |-> "absent"]

Unreadable == [k |-> "unreadable"]

File(t) == [k |-> "table", rows |-> t]

MetricCodes == {"asf", "apa", "psf", "ssf"}

MetricTypes == MetricCodes \cup {"all"}

\* A baseline file with a row of every metric.
GoodBaseline ==
    <<[metric |-> "ASF", country |-> "us", provider |-> "tt", product |-> "geo",
       metric_value |-> Num(91234)],
      [metric |-> "APA", country |-> "us", provider |-> "tt", product |-> "geo",
       metric_value |-> Num(80000)],
      [metric |-> "PSF", country |-> "de", provider |-> "tt", product |-> "geo",
       metric_value |-> Num(70125)],
      [metric |-> "SSF", country |-> "de", provider |-> "tt", product |-> "geo",
       metric_value |-> Null]>>

MetricRow(m, c, v) ==
    [metric |-> m, country |-> c, sample_size |-> "500", match |-> v,
     matching_run_id |-> "r1"]

\* A new-metric file with a row of every metric.
GoodReport ==
    <<MetricRow("asf", "US", Num(93505)), MetricRow("apa", "DE", Num(81000)),
      MetricRow("psf", "DE", Num(70625)), MetricRow("ssf", "DE", Num(60000))>>

\* A new-metric file whose match cells are not numbers.
BadReport ==
    <<MetricRow("asf", "US", Str("n/a")), MetricRow("apa", "US", Str("n/a")),
      MetricRow("psf", "DE", Str("n/a")), MetricRow("ssf", "DE", Str("n/a"))>>

\* The paths a configuration can make the program look at.
PathsOf(cfg) ==
    {cfg.existing_sample, StripParent(cfg.existing_sample),
     cfg.asf_apa_new, StripParent(cfg.asf_apa_new), cfg.psf_new, cfg.ssf_new}

ContentsAt(path) ==
    IF path \in {ExistingUpPath, ExistingPath}
    THEN {Absent, File(GoodBaseline)}
    ELSE {Absent, Unreadable, File(GoodReport), File(BadReport)}

----------------------------------------------------------------------------
(* validate_required_files, compare_all_reports, main *)

\* Path.exists()
PathExists(path) == fs[path].k # "absent"

\* The validation with only the first of the three files of 'all' checked.
ValidateRequiredFilesFirstOnly(metric_choice, cfg) ==
    IF ~PathExists(StripParent(cfg.existing_sample)) THEN FALSE
    ELSE IF metric_choice \in {"asf", "apa"} THEN PathExists(cfg.asf_apa_new)
    ELSE IF metric_choice = "psf" THEN PathExists(cfg.psf_new)
    ELSE IF metric_choice = "ssf" THEN PathExists(cfg.ssf_new)
    ELSE IF metric_choice = "all" THEN PathExists(cfg.asf_apa_new)
    ELSE TRUE

\* Lines 204-233.
ValidateRequiredFiles(metric_choice, cfg) ==
    IF ~PathExists(StripParent(cfg.existing_sample)) THEN FALSE
    ELSE IF metric_choice \in {"asf", "apa"} THEN PathExists(cfg.asf_apa_new)
    ELSE IF metric_choice = "psf" THEN PathExists(cfg.psf_new)
    ELSE IF metric_choice = "ssf" THEN PathExists(cfg.ssf_new)
    ELSE IF metric_choice = "all"
    THEN \A key \in {"asf_apa_new", "psf_new", "ssf_new"} : PathExists(ConfigPath(cfg, key))
    ELSE TRUE

\* The baseline path with its '../' kept.
ExistingSamplePathAsConfigured(cfg) == cfg.existing_sample

\* Line 133: the baseline path compare_all_reports uses.
ExistingSamplePath(cfg) == StripParent(cfg.existing_sample)

\* Lines 43-47: load_report.
LoadReport(path) ==
    IF ~PathExists(path) THEN Raised("FileNotFoundError")
    ELSE IF fs[path].k = "unreadable" THEN Raised("EmptyDataError")
    ELSE Returned(fs[path].rows)

\* The filesystem accesses of one load_report call.
LoadOps(path) ==
    IF PathExists(path)
    THEN <<[op |-> "exists", path |-> path], [op |-> "read_csv", path |-> path]>>
    ELSE <<[op |-> "exists", path |-> path]>>

Job(key, source, f) == [key |-> key, source |-> source, filter |-> f]

\* The branches with the APA comparison of 'all' left out.
JobsWithoutApa(type) ==
    CASE type = "all" ->
            <<Job("asf", "asf_apa_new", "asf"), Job("psf", "psf_new", "psf"),
              Job("ssf", "ssf_new", "ssf")>>
      [] type \in {"asf", "apa"} -> <<Job(type, "asf_apa_new", type)>>
      [] type = "psf" -> <<Job(type, "psf_new", "psf")>>
      [] type = "ssf" -> <<Job(type, "ssf_new", "ssf")>>
      [] OTHER -> <<>>

\* Lines 140-176: the loads and comparisons of a metric type, in order; every
\* one loads its file with load_report and compares it with its filter.
Jobs(type) ==
    CASE type = "all" ->
            <<Job("asf", "asf_apa_new", "asf"), Job("apa", "asf_apa_new", "apa"),
              Job("psf", "psf_new", "psf"), Job("ssf", "ssf_new", "ssf")>>
      [] type \in {"asf", "apa"} -> <<Job(type, "asf_apa_new", type)>>
      [] type = "psf" -> <<Job(type, "psf_new", "psf")>>
      [] type = "ssf" -> <<Job(type, "ssf_new", "ssf")>>
      [] OTHER -> <<>>

\* The job compare_all_reports is at.
CurrentJob == Jobs(metric_type)[Len(comparisons) + 1]

\* An exception ends the run: it propagates out of compare_all_reports, and
\* main (lines 273-274) prints it and returns.
Fails(type, at) ==
    /\ error' = [type |-> type, at |-> at]
    /\ pc' = "done"

\* Lines 259-261 of main.
MainValidate ==
    /\ pc = "main_validate"
    /\ IF ValidateRequiredFiles(metric_type, config)
       THEN files_ok' = "yes" /\ pc' = "ca_exists"
       ELSE files_ok' = "no" /\ pc' = "done"
    /\ UNCHANGED <<existing_sample, metric, filter, comparison, config, fs, caller,
                   metric_type, comparisons, written, error, fsOps>>

\* Lines 133-135 of compare_all_reports.
CheckExistingSample ==
    /\ pc = "ca_exists"
    /\ LET path == ExistingSamplePath(config)
       IN  /\ fsOps' = Append(fsOps, [op |-> "exists", path |-> path])
           /\ IF PathExists(path)
              THEN pc' = "ca_load_existing" /\ error' = error
              ELSE Fails("FileNotFoundError", "load")
    /\ UNCHANGED <<existing_sample, metric, filter, comparison, config, fs, caller,
                   metric_type, files_ok, comparisons, written>>

\* Line 136.
LoadExistingSample ==
    /\ pc = "ca_load_existing"
    /\ LET path == ExistingSamplePath(config)
           r == LoadReport(path)
       IN  /\ fsOps' = fsOps \o LoadOps(path)
           /\ IF r.k = "returned"
              THEN existing_sample' = r.table /\ pc' = "ca_dispatch" /\ error' = error
              ELSE existing_sample' = existing_sample /\ Fails(r.error, "load")
    /\ UNCHANGED <<metric, filter, comparison, config, fs, caller, metric_type,
                   files_ok, comparisons, written>>

\* Lines 138-140, 160, 165, 170, 175-176: the branch on metric_type.
Dispatch ==
    /\ pc = "ca_dispatch"
    /\ IF metric_type \in MetricTypes
       THEN pc' = "ca_load" /\ error' = error
       ELSE Fails("ValueError", "dispatch")
    /\ UNCHANGED <<existing_sample, metric, filter, comparison, config, fs, caller,
                   metric_type, files_ok, comparisons, written, fsOps>>

\* Lines 142-143, 147, 151-152, 156-157, 161-162, 166-167, 171-172.
LoadMetricReport ==
    /\ pc = "ca_load"
    /\ LET path == ConfigPath(config, CurrentJob.source)
           r == LoadReport(path)
       IN  /\ fsOps' = fsOps \o LoadOps(path)
           /\ IF r.k = "returned"
              THEN /\ metric' = r.table
                   /\ filter' = CurrentJob.filter
                   /\ pc' = "ca_compare"
                   /\ error' = error
              ELSE /\ UNCHANGED <<metric, filter>>
                   /\ Fails(r.error, "load")
    /\ UNCHANGED <<existing_sample, comparison, config, fs, caller, metric_type,
                   files_ok, comparisons, written>>

\* The comparison step of a program that writes each output as it is computed.
CompareAndStoreWriting ==
    /\ pc = "ca_compare"
    /\ LET r == CompareReports(existing_sample, metric, filter)
       IN  /\ comparison' = r
           /\ IF r.k = "returned"
              THEN /\ comparisons' = Append(comparisons,
                                            [key |-> CurrentJob.key, table |-> r.table])
                   /\ written' = Append(written, CurrentJob.key)
                   /\ pc' = IF Len(comparisons) + 1 < Len(Jobs(metric_type))
                            THEN "ca_load" ELSE "ca_returned"
                   /\ error' = error
              ELSE /\ UNCHANGED <<comparisons, written>>
                   /\ Fails(r.error, "compare")
    /\ UNCHANGED <<existing_sample, metric, filter, config, fs, caller, metric_type,
                   files_ok, fsOps>>

\* Lines 144, 148, 153, 158, 163, 168, 173, and the return of line 178.
CompareAndStore ==
    /\ pc = "ca_compare"
    /\ LET r == CompareReports(existing_sample, metric, filter)
       IN  /\ comparison' = r
           /\ IF r.k = "returned"
              THEN /\ comparisons' = Append(comparisons,
                                            [key |-> CurrentJob.key, table |-> r.table])
                   /\ pc' = IF Len(comparisons) + 1 < Len(Jobs(metric_type))
                            THEN "ca_load" ELSE "ca_returned"
                   /\ error' = error
              ELSE /\ UNCHANGED comparisons
                   /\ Fails(r.error, "compare")
    /\ UNCHANGED <<existing_sample, metric, filter, config, fs, caller, metric_type,
                   files_ok, written, fsOps>>

\* Lines 263-264 of main: the mapping is back.
MainReceive ==
    /\ pc = "ca_returned"
    /\ caller = "main"
    /\ pc' = "write"
    /\ UNCHANGED <<existing_sample, metric, filter, comparison, orch>>

\* Lines 266-270 of main: one turn of the loop.  to_csv writes
\* <metric_type>_comparison.csv or raises (the directory is missing, the disk
\* is full).
WriteOutput ==
    /\ pc = "write"
    /\ Len(written) < Len(comparisons)
    /\ \E ok \in BOOLEAN :
          IF ok
          THEN /\ written' = Append(written, comparisons[Len(written) + 1].key)
               /\ pc' = IF Len(written) + 1 < Len(comparisons) THEN "write" ELSE "done"
               /\ error' = error
          ELSE /\ written' = written
               /\ Fails("OSError", "write")
    /\ UNCHANGED <<existing_sample, metric, filter, comparison, config, fs, caller,
                   metric_type, files_ok, comparisons, fsOps>>

\* The state once main has read the configuration, built the comparator and
\* got the user's choice (lines 236-256), or as compare_all_reports is called
\* with any argument.
Init ==
    /\ config \in Configs
    /\ fs \in {f \in [AllPaths -> {Absent, Unreadable, File(GoodBaseline),
                                   File(GoodReport), File(BadReport)}] :
                 \A path \in AllPaths :
                    /\ f[path] \in ContentsAt(path)
                    /\ path \notin PathsOf(config) => f[path] = Absent}
    /\ caller \in {"main", "compare_all_reports"}
    /\ metric_type \in IF caller = "main" THEN MetricTypes ELSE MetricTypes \cup {"xyz"}
    /\ pc = IF caller = "main" THEN "main_validate" ELSE "ca_exists"
    /\ files_ok = "pending"
    /\ existing_sample = <<>>
    /\ metric = <<>>
    /\ filter = "none"
    /\ comparison = NoValue
    /\ comparisons = <<>>
    /\ written = <<>>
    /\ error = NoError
    /\ fsOps = <<>>

Next ==
    \/ MainValidate
    \/ CheckExistingSample
    \/ LoadExistingSample
    \/ Dispatch
    \/ LoadMetricReport
    \/ CompareAndStore
    \/ MainReceive
    \/ WriteOutput

Spec == Init /\ [][Next]_vars

----------------------------------------------------------------------------
(* Properties of compare_reports *)

\* Two labels that differ at most in the case of their letters.
EqualsIgnoringCase(a, b) == a # NA /\ b # NA /\ StrLower(a) = StrLower(b)

Max(a, b) == IF a >= b THEN a ELSE b

Abs(n) == IF n < 0 THEN -n ELSE n

\* How many rows of a sequence satisfy a test.
Count(seq, Test(_)) == Cardinality({i \in 1..Len(seq) : Test(seq[i])})

\* The countries the baseline contributes: upper-cased, of rows of the metric.
BaselineCountries ==
    {StrUpper(existing_sample[i].country) :
        i \in {k \in 1..Len(existing_sample) :
                  EqualsIgnoringCase(existing_sample[k].metric, filter)}}

\* The countries the new-metric table contributes: as they are, of rows of the metric.
MetricCountries ==
    {metric[i].country :
        i \in {k \in 1..Len(metric) : EqualsIgnoringCase(metric[k].metric, filter)}}

HasReturned == pc = "returned" /\ comparison.k = "returned"

\* C1: the countries of the returned rows are exactly the upper-cased countries
\* of the baseline rows of the filter's metric together with the countries of
\* the new-metric rows of the filter's metric (compared without regard to
\* case); a row whose country is on one side only has null in every field of
\* the other side; and every label in the output is the filter's metric.
C1_OuterJoinCountries ==
    HasReturned =>
        LET t == comparison.table
        IN  /\ {t[i].country : i \in 1..Len(t)} = BaselineCountries \cup MetricCountries
            /\ \A i \in 1..Len(t) :
                  /\ t[i].country \notin MetricCountries =>
                        /\ t[i].sample_size = NA
                        /\ t[i].metric_new = Null
                        /\ t[i].matching_run_id = NA
                        /\ t[i].comparison_metric_value = NoValue
                  /\ t[i].country \notin BaselineCountries =>
                        /\ t[i].metric_existing = NA
                        /\ t[i].provider = NA
                        /\ t[i].product = NA
                        /\ t[i].metric_existing_value = Null
                        /\ t[i].comparison_metric_value = NoValue
                  /\ t[i].metric_existing \in {NA, StrLower(filter)}

\* A call whose output has a country of the baseline only (written in lower
\* case there), one of the new table only, one of both, while both inputs also
\* hold a row of another metric.
C1_Witness ==
    /\ HasReturned
    /\ \E c \in BaselineCountries \ MetricCountries :
          \E i \in 1..Len(existing_sample) :
             existing_sample[i].country # c /\ StrUpper(existing_sample[i].country) = c
    /\ MetricCountries \ BaselineCountries # {}
    /\ \E i \in 1..Len(existing_sample) :
          ~EqualsIgnoringCase(existing_sample[i].metric, filter)
    /\ Len(comparison.table) >= 2

\* C7: a country that occurs on a side has max(1, b) * max(1, n) rows in the
\* output, b and n being its numbers of filtered baseline rows (country
\* upper-cased) and filtered new-metric rows; so with at most one filtered row
\* per country on each side no country is in two rows.
C7_JoinCardinality ==
    HasReturned =>
        LET t == comparison.table
            b(c) == Count(existing_sample,
                          LAMBDA r : EqualsIgnoringCase(r.metric, filter)
                                     /\ StrUpper(r.country) = c)
            n(c) == Count(metric,
                          LAMBDA r : EqualsIgnoringCase(r.metric, filter) /\ r.country = c)
        IN  \A c \in BaselineCountries \cup MetricCountries :
               Count(t, LAMBDA r : r.country = c) = Max(1, b(c)) * Max(1, n(c))

\* A call where one country has two rows on each side (four in the output).
C7_Witness ==
    /\ HasReturned
    /\ \E c \in BaselineCountries \cap MetricCountries :
          Count(comparison.table, LAMBDA r : r.country = c) = 4

\* C8: the output of a call is the output of the call with any other casing
\* of the same filter.
C8_FilterCaseInsensitive ==
    pc = "returned" =>
        \A f \in Filters :
           EqualsIgnoringCase(f, filter) =>
              CompareReports(existing_sample, metric, f) = comparison

\* A call with the filter in upper case that returned rows.
C8_Witness ==
    /\ HasReturned
    /\ filter = "ASF"
    /\ Len(comparison.table) >= 2

\* C2: in every returned row comparison_metric_value is null exactly when
\* match or metric_value is null in the joined row; otherwise it is the text
\* of match*100 rounded to two decimals and of match*100 - metric_value
\* rounded to an integer.
C2_ComparisonMetricValue ==
    HasReturned =>
        LET t == comparison.table
            j == Joined(existing_sample, metric, filter)
        IN  /\ Len(t) = Len(j)
            /\ \A i \in 1..Len(t) :
                  LET cmv == t[i].comparison_metric_value
                  IN  IF j[i].match = Null \/ j[i].metric_value = Null
                      THEN cmv = NoValue
                      ELSE /\ cmv.k = "text"
                           /\ Abs(10 * cmv.pct - j[i].match.v) <= 5
                           /\ Abs(1000 * cmv.delta
                                  - (j[i].match.v - j[i].metric_value.v)) <= 500

\* A call that returned a row with the text, its second decimal and its delta
\* both rounded up.
C2_Witness ==
    /\ HasReturned
    /\ \E i \in 1..Len(comparison.table) :
          LET cmv == comparison.table[i].comparison_metric_value
          IN  cmv.k = "text" /\ cmv.pct = 9352 /\ cmv.delta = 2

\* C6: a call never fails on a non-numeric match or metric_value.
C6_NeverFails == pc = "returned" => comparison.k = "returned"

----------------------------------------------------------------------------
(* Properties of compare_all_reports and main *)

\* How often compare_all_reports has read a path with pd.read_csv.
Reads(path) ==
    Cardinality({i \in 1..Len(fsOps) : fsOps[i] = [op |-> "read_csv", path |-> path]})

\* The keys of the mapping built so far, in order.
Keys == [i \in 1..Len(comparisons) |-> comparisons[i].key]

\* The keys a complete mapping has.
ExpectedKeys(type) == IF type = "all" THEN <<"asf", "apa", "psf", "ssf">> ELSE <<type>>

\* The new-metric paths a choice needs, as configured.
RequiredMetricPaths(type, cfg) ==
    CASE type = "all" -> {cfg.asf_apa_new, cfg.psf_new, cfg.ssf_new}
      [] type \in {"asf", "apa"} -> {cfg.asf_apa_new}
      [] type = "psf" -> {cfg.psf_new}
      [] type = "ssf" -> {cfg.ssf_new}
      [] OTHER -> {}

InvalidTypeCall == caller = "compare_all_reports" /\ metric_type \notin MetricTypes

\* C3: compare_all_reports with an unrecognised metric_type raises ValueError
\* and accesses no file before it, whatever the baseline file is.
C3_InvalidTypeBeforeFiles ==
    InvalidTypeCall =>
        /\ fsOps = <<>>
        /\ pc = "done" => error.type = "ValueError"

\* C4 as stated: a compare_all_reports('all') call that returns has read the
\* baseline once, the ASF/APA file once, the PSF and SSF files once each, and
\* its mapping has the keys asf, apa, psf, ssf.
C4_AsfApaLoadedOnce ==
    (pc = "ca_returned" /\ metric_type = "all") =>
        /\ Reads(StripParent(config.existing_sample)) = 1
        /\ Reads(config.asf_apa_new) = 1
        /\ Reads(config.psf_new) = 1
        /\ Reads(config.ssf_new) = 1
        /\ Keys = <<"asf", "apa", "psf", "ssf">>

\* C4 amended: a compare_all_reports('all') call that returns has read the
\* baseline once, the ASF/APA file twice (once for asf, once for apa, from the
\* same path), the PSF and SSF files once each, and its mapping has the keys
\* asf, apa, psf, ssf.
C4_AsfApaLoadedTwice ==
    (pc = "ca_returned" /\ metric_type = "all") =>
        /\ Reads(StripParent(config.existing_sample)) = 1
        /\ Reads(config.asf_apa_new) = 2
        /\ Reads(config.psf_new) = 1
        /\ Reads(config.ssf_new) = 1
        /\ Keys = <<"asf", "apa", "psf", "ssf">>

\* A compare_all_reports('all') call has returned.
C4_Witness ==
    /\ pc = "ca_returned"
    /\ metric_type = "all"
    /\ Len(comparisons) = 4

\* C5: when the choice is 'all' and a required new-metric file is missing,
\* main stops at the pre-validation: no report is loaded and no output file is
\* ever written.
C5_MissingFileNoOutput ==
    (caller = "main" /\ metric_type = "all"
     /\ \E path \in RequiredMetricPaths("all", config) : fs[path] = Absent) =>
        /\ written = <<>>
        /\ fsOps = <<>>
        /\ pc \in {"main_validate", "done"}

\* main has ended on choice 'all' with only the PSF file missing.
C5_Witness ==
    /\ caller = "main"
    /\ metric_type = "all"
    /\ pc = "done"
    /\ fs[config.psf_new] = Absent
    /\ fs[config.asf_apa_new] = File(GoodReport)
    /\ fs[config.ssf_new] = File(GoodReport)
    /\ fs[StripParent(config.existing_sample)] = File(GoodBaseline)
    /\ written = <<>>

\* C9: main writes its first output file only once compare_all_reports has
\* returned the complete mapping; a failure of a load or of a comparison
\* leaves no output file; and a run that ends with some but not all of its
\* output files has failed in the write loop.
C9_WriteAfterCompleteMapping ==
    caller = "main" =>
        /\ written # <<>> => pc \in {"write", "done"} /\ Keys = ExpectedKeys(metric_type)
        /\ error.at \in {"load", "compare"} => written = <<>>
        /\ (pc = "done" /\ written # <<>>
            /\ Len(written) < Len(ExpectedKeys(metric_type))) => error.at = "write"

\* A run of 'all' that has computed asf and apa and failed in the psf
\* comparison.
C9_Witness ==
    /\ caller = "main"
    /\ metric_type = "all"
    /\ pc = "done"
    /\ error.at = "compare"
    /\ Keys = <<"asf", "apa">>
    /\ written = <<>>

\* C10: once validate_required_files has returned True, the compare_all_reports
\* call for the same choice raises no FileNotFoundError, and it accesses only
\* paths the validation has checked: the baseline path without '../' and the
\* new-metric paths of the choice as configured.
C10_ValidatedFilesFound ==
    files_ok = "yes" =>
        /\ error.type # "FileNotFoundError"
        /\ \A i \in 1..Len(fsOps) :
              fsOps[i].path \in {StripParent(config.existing_sample)}
                                \cup RequiredMetricPaths(metric_type, config)

\* A validated run of 'all' whose configured paths start with '../' has got
\* its mapping.
C10_Witness ==
    /\ files_ok = "yes"
    /\ metric_type = "all"
    /\ config.existing_sample = ExistingUpPath
    /\ config.asf_apa_new = AsfApaUpPath
    /\ pc = "ca_returned"

====
